---- MODULE Spec2Model ----
(***************************************************************************)
(* Model of the declaration extractor src/bin/decls.cc.                    *)
(*                                                                         *)
(* The front-end (clang libTooling) is outside the repository.  Its        *)
(* answers are inputs of the model: the tree of declaration nodes of each  *)
(* source file, what each node says about itself (class, name, printed     *)
(* types, defining flag, locations) and how the run of each file ended.    *)
(* What decls.cc does with those answers is modelled step by step.         *)
(***************************************************************************)
EXTENDS Integers, Sequences, FiniteSets, TLC

\* ------------------------------------------------------------------ bounds
\* Largest number of top-level declarations of an enumerated main file.
MaxDecls == 2
\* Largest number of source paths on the command line.
MaxSources == 2

\* ------------------------------------------------------- declaration nodes
\* A node of the front-end's tree, with the answers decls.cc asks of it:
\*   cls         the dynamic class of the Decl (D->getDeclKindName())
\*   name        getNameAsString()
\*   type        getReturnType / getType / getUnderlyingType, as printed
\*   params      the ParmVarDecls of a function: <<[type, name], ...>>
\*   tag         the tag of a record: "struct", "union", "class"
\*   hasInit     getInitExpr() != nullptr, for an enumerator
\*   thisDef     isThisDeclarationADefinition()
\*   locValid    getLocation().isValid()
\*   inMain      SM.isInMainFile(getLocation()): decided on the expansion
\*               (presumed) location
\*   spellInMain whether the spelling location of getLocation(), the one
\*               line and column are read from, is in the main file
\*   line, col   SM.getSpellingLineNumber / getSpellingColumnNumber
\*   children    the declaration nodes the traversal descends into
Node(cls, name, type, params, tag, hasInit, thisDef, locValid, inMain, spellInMain, line, col, children) ==
    [cls |-> cls, name |-> name, type |-> type, params |-> params, tag |-> tag,
     hasInit |-> hasInit, thisDef |-> thisDef, locValid |-> locValid,
     inMain |-> inMain, spellInMain |-> spellInMain,
     line |-> line, col |-> col, children |-> children]

\* A node written directly in the main file (no macro involved).
Plain(cls, name, type, params, tag, hasInit, thisDef, line, col, children) ==
    Node(cls, name, type, params, tag, hasInit, thisDef, TRUE, TRUE, TRUE, line, col, children)

Param(type, name) == [type |-> type, name |-> name]

\* The ParmVarDecl nodes of a parameter list, on the line of the function.
RECURSIVE ParmNodes(_, _, _)
ParmNodes(params, line, col) ==
    IF params = <<>> THEN <<>>
    ELSE <<Plain("ParmVar", Head(params).name, Head(params).type, <<>>, "", FALSE, FALSE, line, col, <<>>)>>
         \o ParmNodes(Tail(params), line, col + 8)

\* A function of the main file; the traversal reaches its parameters and
\* then the declarations of its body.
Func(name, type, params, thisDef, line, body) ==
    Plain("Function", name, type, params, "", FALSE, thisDef, line, 5,
          ParmNodes(params, line, 12) \o body)

VarD(name, type, line) == Plain("Var", name, type, <<>>, "", FALSE, FALSE, line, 5, <<>>)
FieldD(name, type, line) == Plain("Field", name, type, <<>>, "", FALSE, FALSE, line, 9, <<>>)
EnumCon(name, hasInit, line) == Plain("EnumConstant", name, "int", <<>>, "", hasInit, FALSE, line, 5, <<>>)
TypedefD(name, type, line) == Plain("Typedef", name, type, <<>>, "", FALSE, FALSE, line, 27, <<>>)
RecordD(tag, name, thisDef, line, fields) == Plain("Record", name, "", <<>>, tag, FALSE, thisDef, line, 8, fields)
EnumD(name, thisDef, line, enumerators) == Plain("Enum", name, "", <<>>, "", FALSE, thisDef, line, 6, enumerators)

\* The root of every tree: the TranslationUnitDecl, which has no location.
Root(decls) ==
    Node("TranslationUnit", "", "", <<>>, "", FALSE, FALSE, FALSE, FALSE, FALSE, 0, 0, decls)

\* --------------------------------------------------------------- the inputs
NoParams == <<>>
TwoParams == <<Param("int", "a"), Param("char *", "")>>

F_decl == Func("f", "int", NoParams, FALSE, 4, <<>>)
F_def  == Func("f", "int", NoParams, TRUE, 5, <<>>)
G_decl == Func("g", "void", TwoParams, FALSE, 6, <<>>)
H_def  == Func("h", "long", <<Param("WORD_LIST *", "list")>>, TRUE, 7, <<VarD("tmp", "int", 8)>>)

Conn_fwd == RecordD("struct", "connection", FALSE, 1, <<>>)
Conn_td  == TypedefD("CONNECTION", "struct connection", 2)
Conn_def == RecordD("struct", "connection", TRUE, 3,
                    <<FieldD("fd", "int", 3), FieldD("next", "CONNECTION *", 3)>>)

Anon_struct == RecordD("struct", "", TRUE, 10, <<FieldD("x", "int", 10)>>)
Value_union == RecordD("union", "value", TRUE, 11, <<FieldD("i", "int", 12)>>)
Status_enum == EnumD("status", TRUE, 13, <<EnumCon("STATUS_OK", TRUE, 14), EnumCon("STATUS_LAST", FALSE, 15)>>)
Global_var  == VarD("counter", "int", 16)
\* "int limit = 100;": the front-end calls this occurrence a definition.
Init_var    == Plain("Var", "limit", "int", <<>>, "", FALSE, TRUE, 23, 5, <<>>)
Anon_enum   == EnumD("", TRUE, 17, <<EnumCon("RED", FALSE, 17)>>)
\* A C++ class: a CXXRecordDecl, which is a RecordDecl.
Class_rec   == Plain("CXXRecord", "Buffer", "", <<>>, "class", FALSE, TRUE, 18, 7,
                     <<FieldD("size", "int", 18)>>)
\* A forward declaration with a tag that is neither struct, union nor class.
Iface_rec   == Plain("CXXRecord", "", "", <<>>, "interface", FALSE, FALSE, 19, 13, <<>>)

\* A function declared in an included header.
Hdr_func == Node("Function", "puts", "int", <<Param("const char *", "")>>, "", FALSE, FALSE,
                 TRUE, FALSE, FALSE, 40, 5, <<>>)
\* "int NAME(void);" in the main file, where the header has "#define NAME foo":
\* the location of the declaration expands in the main file and is spelled
\* in the header, at line 90 of the header.
Macro_func == Node("Function", "foo", "int", NoParams, "", FALSE, FALSE,
                   TRUE, TRUE, FALSE, 90, 14, <<>>)
\* A declaration the front-end made up itself: it has no location.
Implicit_td == Node("Typedef", "__builtin_va_list", "char *", <<>>, "", FALSE, FALSE,
                    FALSE, FALSE, FALSE, 0, 0, <<>>)
\* C++ declarations of the main file.
Alias_decl == Plain("TypeAlias", "handle_t", "void *", <<>>, "", FALSE, FALSE, 20, 7, <<>>)
Ns_decl    == Plain("Namespace", "util", "", <<>>, "", FALSE, FALSE, 21, 11, <<VarD("depth", "int", 22)>>)

\* The top-level declarations an enumerated source file is made of.
Catalog ==
    {F_decl, F_def, G_decl, Conn_def, Global_var, Hdr_func, Macro_func, Alias_decl}

\* All sequences over S of length at most n.
RECURSIVE SeqsUpTo(_, _)
SeqsUpTo(S, n) ==
    IF n = 0 THEN {<<>>}
    ELSE LET shorter == SeqsUpTo(S, n - 1)
         IN  shorter \cup {Append(s, x) : s \in {t \in shorter : Len(t) = n - 1}, x \in S}

\* The five-line scenario source of src/test_typedef.c and of the report format.
ScenarioUnit == <<Conn_fwd, Conn_td, Conn_def, F_decl, F_def>>

\* A source with the other shapes of declaration, after src/eg/example.c.
ExampleUnit ==
    <<Implicit_td, Anon_struct, Value_union, Status_enum, H_def, Ns_decl,
      Anon_enum, Class_rec, Iface_rec, Init_var>>

\* The source files a run is tried on.
MainUnits == SeqsUpTo(Catalog, MaxDecls) \cup {ScenarioUnit, ExampleUnit}
ExtraUnits == {<<F_def, Hdr_func>>}

\* How the front-end's run of one source file ends:
\*   "ok"      a tree, no error reported
\*   "errors"  errors reported, a best-effort tree was still built
\*   "fatal"   no tree (missing file, unusable compiler arguments)
\*   "skipped" no compile command for the file: no tree, not a failure
HasTree(outcome) == outcome \in {"ok", "errors"}

Source(path, outcome, decls) == [path |-> path, outcome |-> outcome, decls |-> decls]

FirstSources ==
    {Source("main.c", o, u) : o \in {"ok", "errors"}, u \in MainUnits}
    \cup {Source("main.c", o, <<>>) : o \in {"fatal", "skipped"}}
OtherSources ==
    {Source("other.c", "ok", u) : u \in ExtraUnits}
    \cup {Source("other.c", "fatal", <<>>)}

SourceLists ==
    {<<s>> \o rest : s \in FirstSources, rest \in SeqsUpTo(OtherSources, MaxSources - 1)}

\* -------------------------------------------------------------------- state
VARIABLES
    argsOk,           \* CommonOptionsParser::create succeeded
    sources,          \* OptionsParser.getSourcePathList(), with what the front-end makes of each
    ShowMacros,       \* -m
    DefinitionsOnly,  \* -d
    pc,               \* position in main
    fileIdx,          \* the source file Tool.run is at
    stack,            \* nodes the traversal has still to enter, next first
    Decls,            \* std::vector<DeclInfo> Decls
    origin,           \* history: the node each element of Decls was made from
    ProcessingFailed, \* Tool.run: some file failed
    FileSkipped,      \* Tool.run: some file was skipped
    Result,           \* int Result
    i,                \* position of the printing loop in Decls
    out,              \* what was written to std::cout, chunk by chunk
    exit              \* exit status; NotExited while running

vars == <<argsOk, sources, ShowMacros, DefinitionsOnly, pc, fileIdx, stack, Decls,
          origin, ProcessingFailed, FileSkipped, Result, i, out, exit>>

NotExited == -1

Init ==
    /\ argsOk \in BOOLEAN
    /\ sources \in (IF argsOk THEN SourceLists ELSE {<<>>})
    /\ ShowMacros \in BOOLEAN
    /\ DefinitionsOnly \in BOOLEAN
    /\ pc = "start"
    /\ fileIdx = 1
    /\ stack = <<>>
    /\ Decls = <<>>
    /\ origin = <<>>
    /\ ProcessingFailed = FALSE
    /\ FileSkipped = FALSE
    /\ Result = 0
    /\ i = 1
    /\ out = <<>>
    /\ exit = NotExited

\* ------------------------------------------------ the visitor, DeclVisitor
\* dyn_cast<base>(D) succeeds: the class of the node is base or derives from
\* it.  ParmVarDecl derives from VarDecl and CXXRecordDecl from RecordDecl;
\* the other classes of the inputs derive from none of the classes decls.cc
\* asks for.
IsA(cls, base) ==
    \/ cls = base
    \/ cls = "ParmVar" /\ base = "Var"
    \/ cls = "CXXRecord" /\ base = "Record"

shouldVisitDecl(D) ==
    IF ~D.locValid THEN FALSE
    ELSE IF ~D.inMain THEN FALSE
    ELSE TRUE

\* The loop over the parameters, from parameter k on.
RECURSIVE ParamLoop(_, _)
ParamLoop(params, k) ==
    IF k > Len(params) THEN ""
    ELSE (IF k > 1 THEN ", " ELSE "")
         \o params[k].type
         \o (IF params[k].name # "" THEN " " \o params[k].name ELSE "")
         \o ParamLoop(params, k + 1)

\* A variant that leaves the parentheses of a function without parameters empty.
getFunctionSignature_empty(FD) ==
    FD.type \o " " \o FD.name \o "(" \o ParamLoop(FD.params, 1) \o ")"

getFunctionSignature(FD) ==
    FD.type \o " " \o FD.name \o "("
    \o (IF Len(FD.params) = 0 THEN "void" ELSE ParamLoop(FD.params, 1))
    \o ")"

\* A variant that prints the empty name of an anonymous record or enum as
\* it is.
getDeclarationString_noAnonymous(D) ==
    IF IsA(D.cls, "Function") THEN getFunctionSignature(D) \o ";"
    ELSE IF IsA(D.cls, "Var") THEN D.type \o " " \o D.name \o ";"
    ELSE IF IsA(D.cls, "Typedef") THEN "typedef " \o D.type \o " " \o D.name \o ";"
    ELSE IF IsA(D.cls, "Record") THEN
        (IF D.tag = "struct" THEN "struct "
         ELSE IF D.tag = "union" THEN "union " ELSE "class ") \o D.name \o ";"
    ELSE IF IsA(D.cls, "Enum") THEN "enum " \o D.name \o ";"
    ELSE IF IsA(D.cls, "Field") THEN D.type \o " " \o D.name \o ";"
    ELSE IF IsA(D.cls, "EnumConstant") THEN
        D.name \o (IF D.hasInit THEN " = <value>" ELSE "")
    ELSE D.cls \o ": " \o D.name

getDeclarationString(D) ==
    IF IsA(D.cls, "Function") THEN getFunctionSignature(D) \o ";"
    ELSE IF IsA(D.cls, "Var") THEN D.type \o " " \o D.name \o ";"
    ELSE IF IsA(D.cls, "Typedef") THEN "typedef " \o D.type \o " " \o D.name \o ";"
    ELSE IF IsA(D.cls, "Record") THEN
        LET name == IF D.name = "" THEN "<anonymous>" ELSE D.name
        IN  (IF D.tag = "struct" THEN "struct "
             ELSE IF D.tag = "union" THEN "union " ELSE "class ") \o name \o ";"
    ELSE IF IsA(D.cls, "Enum") THEN
        LET name == IF D.name = "" THEN "<anonymous>" ELSE D.name
        IN  "enum " \o name \o ";"
    ELSE IF IsA(D.cls, "Field") THEN D.type \o " " \o D.name \o ";"
    ELSE IF IsA(D.cls, "EnumConstant") THEN
        D.name \o (IF D.hasInit THEN " = <value>" ELSE "")
    ELSE D.cls \o ": " \o D.name

\* A variant that asks every node for its defining flag.
isDefinition_anyKind(D) == D.thisDef

isDefinition(D) ==
    IF IsA(D.cls, "Function") THEN D.thisDef
    ELSE IF IsA(D.cls, "Record") THEN D.thisDef
    ELSE IF IsA(D.cls, "Enum") THEN D.thisDef
    ELSE FALSE

DeclInfo(D) ==
    [kind |-> D.cls,
     declaration |-> getDeclarationString(D),
     is_definition |-> isDefinition(D),
     line |-> D.line,
     column |-> D.col]

\* A variant that merges the occurrences of one entity into one record.
addDeclaration_merging(decls, D) ==
    IF ~shouldVisitDecl(D) THEN decls
    ELSE IF \E k \in 1..Len(decls) : decls[k].declaration = getDeclarationString(D)
         THEN decls
         ELSE Append(decls, DeclInfo(D))

\* A variant that puts the new record in front.
addDeclaration_front(decls, D) ==
    IF ~shouldVisitDecl(D) THEN decls
    ELSE <<DeclInfo(D)>> \o decls

\* Decls after addDeclaration(D).
addDeclaration(decls, D) ==
    IF ~shouldVisitDecl(D) THEN decls
    ELSE Append(decls, DeclInfo(D))

\* A variant without VisitFieldDecl.
VisitMethods_noField ==
    {"Function", "Var", "Typedef", "Record", "Enum", "EnumConstant"}

\* The classes DeclVisitor has a Visit method for.
VisitMethods ==
    {"Function", "Var", "Typedef", "Record", "Enum", "Field", "EnumConstant"}

\* RecursiveASTVisitor calls Visit<base>Decl for every base the node is a.
HasVisitMethod(D) == \E base \in VisitMethods : IsA(D.cls, base)

\* Decls after the visitor was called back for node D.
VisitDecl(decls, D) ==
    IF HasVisitMethod(D) THEN addDeclaration(decls, D) ELSE decls

\* ------------------------------------------------------------------- main
\* CommonOptionsParser::create fails: the error goes to llvm::errs, return 1.
BadOptions ==
    /\ pc = "start"
    /\ ~argsOk
    /\ exit' = 1
    /\ pc' = "done"
    /\ UNCHANGED <<argsOk, sources, ShowMacros, DefinitionsOnly, fileIdx, stack, Decls,
                   origin, ProcessingFailed, FileSkipped, Result, i, out>>

\* The options parse; Tool and Factory are built and Tool.run is entered.
ParseOptions ==
    /\ pc = "start"
    /\ argsOk
    /\ pc' = "run"
    /\ fileIdx' = 1
    /\ UNCHANGED <<argsOk, sources, ShowMacros, DefinitionsOnly, stack, Decls,
                   origin, ProcessingFailed, FileSkipped, Result, i, out, exit>>

\* Tool.run takes the next source file.  With a tree, the consumer's
\* HandleTranslationUnit starts TraverseDecl at the root; without one the
\* file adds nothing and the loop goes on.
RunFile ==
    /\ pc = "run"
    /\ fileIdx <= Len(sources)
    /\ LET src == sources[fileIdx]
       IN  /\ ProcessingFailed' = (ProcessingFailed \/ src.outcome \in {"errors", "fatal"})
           /\ FileSkipped' = (FileSkipped \/ src.outcome = "skipped")
           /\ IF HasTree(src.outcome)
              THEN /\ stack' = <<Root(src.decls)>>
                   /\ pc' = "traverse"
                   /\ UNCHANGED fileIdx
              ELSE /\ fileIdx' = fileIdx + 1
                   /\ UNCHANGED <<stack, pc>>
    /\ UNCHANGED <<argsOk, sources, ShowMacros, DefinitionsOnly, Decls, origin,
                   Result, i, out, exit>>

\* The traversal enters the next node, in pre-order: the visitor is called
\* back for it, then its children are entered before anything else.
TraverseDecl ==
    /\ pc = "traverse"
    /\ stack # <<>>
    /\ LET D == Head(stack)
       IN  /\ Decls' = VisitDecl(Decls, D)
           /\ origin' = IF Len(Decls') > Len(Decls) THEN Append(origin, D) ELSE origin
           /\ stack' = D.children \o Tail(stack)
    /\ UNCHANGED <<argsOk, sources, ShowMacros, DefinitionsOnly, pc, fileIdx,
                   ProcessingFailed, FileSkipped, Result, i, out, exit>>

\* The traversal of this file is over; Tool.run goes to the next file.
EndTraversal ==
    /\ pc = "traverse"
    /\ stack = <<>>
    /\ fileIdx' = fileIdx + 1
    /\ pc' = "run"
    /\ UNCHANGED <<argsOk, sources, ShowMacros, DefinitionsOnly, stack, Decls, origin,
                   ProcessingFailed, FileSkipped, Result, i, out, exit>>

\* What Tool.run returns after the last file.
ToolResult(failed, skipped) ==
    IF failed THEN 1 ELSE IF skipped THEN 2 ELSE 0

\* Tool.run returns; main prints the header for the first source path.
PrintHeader ==
    /\ pc = "run"
    /\ fileIdx > Len(sources)
    /\ Result' = ToolResult(ProcessingFailed, FileSkipped)
    /\ out' = IF Len(sources) > 0
              THEN Append(out, "=== Declarations from " \o sources[1].path \o " ===\n\n")
              ELSE out
    /\ i' = 1
    /\ pc' = "print"
    /\ UNCHANGED <<argsOk, sources, ShowMacros, DefinitionsOnly, fileIdx, stack, Decls,
                   origin, ProcessingFailed, FileSkipped, exit>>

\* A variant in which -m adds the kind of the node to the line.
DeclLine_macros(decl) ==
    (IF ShowMacros THEN decl.kind \o " " ELSE "")
    \o decl.declaration \o "  // "
    \o (IF decl.is_definition THEN "definition" ELSE "declaration")
    \o " at " \o ToString(decl.line) \o ":" \o ToString(decl.column) \o "\n"

\* The line printed for one element of Decls.
DeclLine(decl) ==
    decl.declaration \o "  // "
    \o (IF decl.is_definition THEN "definition" ELSE "declaration")
    \o " at " \o ToString(decl.line) \o ":" \o ToString(decl.column) \o "\n"

\* A variant with the test of the flag the wrong way round.
Skipped_inverted(decl) == DefinitionsOnly /\ decl.is_definition

\* Whether the printing loop skips this element.
Skipped(decl) == DefinitionsOnly /\ ~decl.is_definition

\* One iteration of the printing loop.
PrintDecl ==
    /\ pc = "print"
    /\ i <= Len(Decls)
    /\ out' = IF Skipped(Decls[i]) THEN out ELSE Append(out, DeclLine(Decls[i]))
    /\ i' = i + 1
    /\ UNCHANGED <<argsOk, sources, ShowMacros, DefinitionsOnly, pc, fileIdx, stack, Decls,
                   origin, ProcessingFailed, FileSkipped, Result, exit>>

\* A variant that returns success whatever Tool.run returned.
ReturnValue_zero(result) == 0

\* What main returns: return Result.
ReturnValue(result) == result

TotalLine(decls) == "\n=== Total: " \o ToString(Len(decls)) \o " items ===\n"

\* After the loop: the total is printed and main returns Result.
PrintTotal ==
    /\ pc = "print"
    /\ i > Len(Decls)
    /\ out' = Append(out, TotalLine(Decls))
    /\ exit' = ReturnValue(Result)
    /\ pc' = "done"
    /\ UNCHANGED <<argsOk, sources, ShowMacros, DefinitionsOnly, fileIdx, stack, Decls,
                   origin, ProcessingFailed, FileSkipped, Result, i>>

Next ==
    \/ BadOptions
    \/ ParseOptions
    \/ RunFile
    \/ TraverseDecl
    \/ EndTraversal
    \/ PrintHeader
    \/ PrintDecl
    \/ PrintTotal

Spec == Init /\ [][Next]_vars

TypeOK ==
    /\ pc \in {"start", "run", "traverse", "print", "done"}
    /\ Len(origin) = Len(Decls)
    /\ exit \in {NotExited, 0, 1, 2}

\* ------------------------------------------------------------ the claims
\* The nodes of a forest in the order a pre-order walk enters them.
RECURSIVE Preorder(_)
Preorder(nodes) ==
    IF nodes = <<>> THEN <<>>
    ELSE <<Head(nodes)>> \o Preorder(Head(nodes).children) \o Preorder(Tail(nodes))

\* The declaration nodes of all the trees the front-end produced, file by file.
RECURSIVE TreeNodes(_)
TreeNodes(srcs) ==
    IF srcs = <<>> THEN <<>>
    ELSE (IF HasTree(Head(srcs).outcome) THEN Preorder(Head(srcs).decls) ELSE <<>>)
         \o TreeNodes(Tail(srcs))

\* The nodes whose location is valid and in the main file.
Eligible(n) == n.locValid /\ n.inMain

\* Tool.run has returned: every traversal is over.
TraversalDone == pc \in {"print", "done"}

\* main has returned after printing the report.
Reported == pc = "done" /\ argsOk

\* The record lines of a finished report: all but the header and the total.
RecordLines == SubSeq(out, 2, Len(out) - 1)

\* The lines of all the records, as a run without -d prints them.
UnfilteredLines == [k \in 1..Len(Decls) |-> DeclLine(Decls[k])]

\* The lines of the records with is_definition, in the order of the records.
RECURSIVE DefinitionLines(_)
DefinitionLines(decls) ==
    IF decls = <<>> THEN <<>>
    ELSE (IF Head(decls).is_definition THEN <<DeclLine(Head(decls))>> ELSE <<>>)
         \o DefinitionLines(Tail(decls))

\* C1: with -d the record lines printed are exactly the lines of the records
\* with isDefinition, in the order of the unfiltered report; without -d they
\* are the lines of all the records; either way the total line gives the
\* number of all collected records.
C1_FilterIsSubsequence ==
    Reported =>
        /\ RecordLines = (IF DefinitionsOnly THEN DefinitionLines(Decls) ELSE UnfilteredLines)
        /\ out[Len(out)] = "\n=== Total: " \o ToString(Len(Decls)) \o " items ===\n"

\* A report with -d that left out some records and kept others.
C1_Witness ==
    /\ Reported
    /\ DefinitionsOnly
    /\ \E a, b \in 1..Len(Decls) : Decls[a].is_definition /\ ~Decls[b].is_definition
    /\ Len(RecordLines) >= 1
    /\ Len(RecordLines) < Len(Decls)

\* C2: the position of every collected record lies in the main file.
C2_PositionsInMainFile ==
    \A k \in 1..Len(origin) : origin[k].spellInMain

\* C3: after the traversal there is exactly one record for each node whose
\* location is valid and in the main file, whatever the class of the node.
C3_OneRecordPerEligibleNode ==
    TraversalDone =>
        Len(Decls) = Len(SelectSeq(TreeNodes(sources), Eligible))

\* Two function nodes that declare the same entity.
SameFunction(m, n) ==
    /\ m.cls = "Function" /\ n.cls = "Function"
    /\ m.name = n.name /\ m.type = n.type /\ m.params = n.params

\* The record at position a was made from an occurrence like node n.
RecordOf(a, n) ==
    /\ Decls[a].line = n.line /\ Decls[a].column = n.col
    /\ Decls[a].is_definition = n.thisDef

\* C4: each occurrence of a function declared more than once in the main file
\* has its own record, in the order of the occurrences and with the same
\* signature; a declaration followed by the definition gives a record with
\* isDefinition false and a later one with isDefinition true.
C4_OccurrencesNotMerged ==
    TraversalDone =>
        LET nodes == TreeNodes(sources)
        IN  \A p, q \in 1..Len(nodes) :
                (p < q /\ Eligible(nodes[p]) /\ Eligible(nodes[q])
                       /\ SameFunction(nodes[p], nodes[q]))
                => \E a, b \in 1..Len(Decls) :
                       /\ a < b
                       /\ RecordOf(a, nodes[p]) /\ RecordOf(b, nodes[q])
                       /\ Decls[a].declaration = Decls[b].declaration

\* A function was declared and later defined, and both records are there.
C4_Witness ==
    /\ TraversalDone
    /\ \E a, b \in 1..Len(Decls) :
           /\ a < b
           /\ origin[a] = F_decl /\ origin[b] = F_def
           /\ ~Decls[a].is_definition /\ Decls[b].is_definition

\* A run on the scenario source alone.
ScenarioRun ==
    /\ Reported
    /\ Len(sources) = 1
    /\ HasTree(sources[1].outcome)
    /\ sources[1].decls = ScenarioUnit

\* The signature and the definition flag of each record, in order.
Listing == [k \in 1..Len(Decls) |-> <<Decls[k].declaration, Decls[k].is_definition>>]

\* C5 as stated: the scenario source gives six records and a total of 6.
C5_SixRecords ==
    ScenarioRun =>
        /\ Listing = << <<"struct connection;", FALSE>>,
                        <<"typedef struct connection CONNECTION;", FALSE>>,
                        <<"struct connection;", TRUE>>,
                        <<"int fd;", FALSE>>,
                        <<"int f(void);", FALSE>>,
                        <<"int f(void);", TRUE>> >>
        /\ out[Len(out)] = "\n=== Total: 6 items ===\n"

\* C5 amended: the scenario source gives seven records, the field next of
\* struct connection being one of them, and a total of 7.
C5_SevenRecords ==
    ScenarioRun =>
        /\ Listing = << <<"struct connection;", FALSE>>,
                        <<"typedef struct connection CONNECTION;", FALSE>>,
                        <<"struct connection;", TRUE>>,
                        <<"int fd;", FALSE>>,
                        <<"CONNECTION * next;", FALSE>>,
                        <<"int f(void);", FALSE>>,
                        <<"int f(void);", TRUE>> >>
        /\ out[Len(out)] = "\n=== Total: 7 items ===\n"

\* The report of the scenario source is complete.
C5_Witness == ScenarioRun /\ Len(out) >= 3

\* The front-end produced no tree at all: the options did not parse, or
\* no source file of the run got a tree.
FatalFailure ==
    \/ ~argsOk
    \/ \A k \in 1..Len(sources) : sources[k].outcome = "fatal"

\* C6: when the front-end fails fatally the exit status is not 0 and nothing
\* of the report is written to standard output.
C6_NoReportOnFatalFailure ==
    (pc = "done" /\ FatalFailure) => (exit # 0 /\ out = <<>>)

\* Every source file got a tree.
TreeProduced ==
    argsOk /\ \A k \in 1..Len(sources) : HasTree(sources[k].outcome)

\* C7 as stated: the exit status is 0 whenever a tree was produced and the
\* traversal completed, recoverable errors included, and not 0 only when no
\* tree could be produced.
C7_ExitZeroWithTree ==
    pc = "done" => (exit = 0 <=> TreeProduced)

\* C7 amended: the exit status is what the front-end's run returned: 0 exactly
\* when every source file was processed without any error being reported, and
\* 1 when errors were reported, also when a best-effort tree was built,
\* traversed and reported.
C7_ExitIsRunResult ==
    pc = "done" =>
        /\ exit = 0 <=> (argsOk /\ \A k \in 1..Len(sources) : sources[k].outcome = "ok")
        /\ (argsOk /\ \E k \in 1..Len(sources) : sources[k].outcome \in {"errors", "fatal"})
               => exit = 1
        /\ ~argsOk => exit = 1

\* A run whose source had recoverable errors has reported its records.
C7_Witness ==
    /\ Reported
    /\ Len(sources) = 1
    /\ sources[1].outcome = "errors"
    /\ Len(Decls) >= 1
    /\ Len(out) = Len(Decls) + 2
    /\ exit = 1

\* s is t with some elements left out.
RECURSIVE IsSubsequence(_, _)
IsSubsequence(s, t) ==
    IF s = <<>> THEN TRUE
    ELSE IF t = <<>> THEN FALSE
    ELSE IF Head(s) = Head(t) THEN IsSubsequence(Tail(s), Tail(t))
    ELSE IsSubsequence(s, Tail(t))

\* The lines the loop has printed so far for the first n records.
RECURSIVE KeptLines(_, _)
KeptLines(decls, n) ==
    IF n = 0 THEN <<>>
    ELSE KeptLines(decls, n - 1)
         \o (IF DefinitionsOnly /\ ~decls[n].is_definition THEN <<>> ELSE <<DeclLine(decls[n])>>)

\* A step leaves the records alone or adds one at the end.
AppendOnly ==
    \/ Decls' = Decls
    \/ /\ Len(Decls') = Len(Decls) + 1
       /\ \A k \in 1..Len(Decls) : Decls'[k] = Decls[k]

\* C8: every step leaves the sequence of records unchanged or appends one
\* record at its end; the records are in the order their nodes were visited,
\* and the lines are printed in the order of the records.
C8_AppendOnlyInVisitOrder ==
    /\ [][AppendOnly]_vars
    /\ [](IsSubsequence(origin, TreeNodes(sources)))
    /\ [](pc = "print" => SubSeq(out, 2, Len(out)) = KeptLines(Decls, i - 1))

\* The loop has printed the lines of two records.
C8_Witness ==
    /\ pc = "print"
    /\ Len(Decls) >= 3
    /\ Len(out) >= 3
    /\ origin[1] # origin[2]

\* The records, the report and the exit status as determined by the options
\* other than -m and by what the front-end returns.
RECURSIVE ExpectedDecls(_)
ExpectedDecls(nodes) ==
    IF nodes = <<>> THEN <<>>
    ELSE (IF HasVisitMethod(Head(nodes)) /\ shouldVisitDecl(Head(nodes))
          THEN <<DeclInfo(Head(nodes))>> ELSE <<>>)
         \o ExpectedDecls(Tail(nodes))

ExpectedLine(decl) ==
    decl.declaration \o "  // "
    \o (IF decl.is_definition THEN "definition" ELSE "declaration")
    \o " at " \o ToString(decl.line) \o ":" \o ToString(decl.column) \o "\n"

RECURSIVE ExpectedLines(_, _)
ExpectedLines(decls, defsOnly) ==
    IF decls = <<>> THEN <<>>
    ELSE (IF defsOnly /\ ~Head(decls).is_definition THEN <<>> ELSE <<ExpectedLine(Head(decls))>>)
         \o ExpectedLines(Tail(decls), defsOnly)

ExpectedOut(srcs, defsOnly) ==
    LET decls == ExpectedDecls(TreeNodes(srcs))
    IN  <<"=== Declarations from " \o srcs[1].path \o " ===\n\n">>
        \o ExpectedLines(decls, defsOnly)
        \o <<"\n=== Total: " \o ToString(Len(decls)) \o " items ===\n">>

ExpectedExit(srcs) ==
    IF \E k \in 1..Len(srcs) : srcs[k].outcome \in {"errors", "fatal"} THEN 1
    ELSE IF \E k \in 1..Len(srcs) : srcs[k].outcome = "skipped" THEN 2
    ELSE 0

ParamText(prm) ==
    IF prm.name = "" THEN prm.type ELSE prm.type \o " " \o prm.name

\* The parameters joined by ", ".
RECURSIVE JoinParams(_)
JoinParams(params) ==
    IF Len(params) = 1 THEN ParamText(params[1])
    ELSE JoinParams(SubSeq(params, 1, Len(params) - 1)) \o ", " \o ParamText(params[Len(params)])

\* C10: the signature of a function node is "<return-type> <name>(<params>);"
\* where <params> is "void" exactly when the function has no parameters and
\* otherwise the parameters in order joined by ", ", each "<type>" when
\* unnamed and "<type> <name>" when named.
C10_FunctionSignature ==
    \A k \in 1..Len(Decls) :
        origin[k].cls = "Function" =>
            LET n == origin[k]
                params == IF Len(n.params) = 0 THEN "void" ELSE JoinParams(n.params)
            IN  /\ Decls[k].declaration = n.type \o " " \o n.name \o "(" \o params \o ");"
                /\ (params = "void") <=> (Len(n.params) = 0)

\* Records of a function without parameters and of one with a named and an
\* unnamed parameter.
C10_Witness ==
    \E a, b \in 1..Len(Decls) :
        /\ origin[a] = F_decl /\ Decls[a].declaration = "int f(void);"
        /\ origin[b] = G_decl /\ Decls[b].declaration = "void g(int a, char *);"

\* The keyword of a record's tag.
TagKeyword(tag) ==
    CASE tag = "struct" -> "struct"
      [] tag = "union"  -> "union"
      [] OTHER          -> "class"

\* The name a record or enum is shown with.
ShownName(n) == IF n.name = "" THEN "<anonymous>" ELSE n.name

\* C11: the signature of a record node is "<keyword> <name>;" with keyword
\* struct, union, or class for any other tag, and that of an enum node is
\* "enum <name>;"; <name> is "<anonymous>" exactly when the node has an empty
\* name.
C11_RecordAndEnumSignature ==
    \A k \in 1..Len(Decls) :
        LET n == origin[k]
        IN  /\ n.cls \in {"Record", "CXXRecord"} =>
                Decls[k].declaration = TagKeyword(n.tag) \o " " \o ShownName(n) \o ";"
            /\ n.cls = "Enum" =>
                Decls[k].declaration = "enum " \o ShownName(n) \o ";"
            /\ n.cls \in {"Record", "CXXRecord", "Enum"} =>
                ((ShownName(n) = "<anonymous>") <=> (n.name = ""))

\* Records of an anonymous struct, a union, a class, a record with another
\* tag and an anonymous enum.
C11_Witness ==
    \E a, b, c, d, e \in 1..Len(Decls) :
        /\ origin[a] = Anon_struct /\ Decls[a].declaration = "struct <anonymous>;"
        /\ origin[b] = Value_union /\ Decls[b].declaration = "union value;"
        /\ origin[c] = Class_rec /\ Decls[c].declaration = "class Buffer;"
        /\ origin[d] = Iface_rec /\ Decls[d].declaration = "class <anonymous>;"
        /\ origin[e] = Anon_enum /\ Decls[e].declaration = "enum <anonymous>;"

\* The classes of node without a definition of their own in the report.
NeverDefinition == {"Var", "ParmVar", "Typedef", "Field", "EnumConstant"}

\* The classes of node that are asked for their defining flag.
AskedForDefinition == {"Function", "Record", "CXXRecord", "Enum"}

\* C12: isDefinition is false in the record of a variable, parameter,
\* typedef, field or enumerator, whatever the front-end says of the node, and
\* in the record of a function, record or enum it is the defining flag of
\* that very node; so with -d no line of a variable, parameter, typedef,
\* field or enumerator is printed.
C12_DefinitionFlagPerOccurrence ==
    /\ \A k \in 1..Len(Decls) :
           /\ origin[k].cls \in NeverDefinition => ~Decls[k].is_definition
           /\ origin[k].cls \in AskedForDefinition =>
                  Decls[k].is_definition = origin[k].thisDef
    /\ (Reported /\ DefinitionsOnly) =>
           /\ \A k \in 1..Len(Decls) :
                  origin[k].cls \in NeverDefinition =>
                      \A j \in 1..Len(RecordLines) : RecordLines[j] # DeclLine(Decls[k])
           /\ \A j \in 1..Len(RecordLines) :
                  \E k \in 1..Len(Decls) :
                      /\ origin[k].cls \in AskedForDefinition
                      /\ origin[k].thisDef
                      /\ RecordLines[j] = DeclLine(Decls[k])

\* A report with -d of a source with an initialized variable, fields,
\* enumerators and definitions of a function, records and enums.
C12_Witness ==
    /\ Reported
    /\ DefinitionsOnly
    /\ \E k \in 1..Len(Decls) : origin[k] = Init_var /\ ~Decls[k].is_definition
    /\ \E k \in 1..Len(Decls) : origin[k].cls = "EnumConstant"
    /\ \E k \in 1..Len(Decls) : origin[k] = H_def /\ Decls[k].is_definition
    /\ Len(RecordLines) >= 3

\* A forward declaration keeps isDefinition false when the definition of the
\* same function is in the tree as well.
C12_WitnessForward ==
    \E a, b \in 1..Len(Decls) :
        origin[a] = F_decl /\ origin[b] = F_def /\ ~Decls[a].is_definition

\* The node is none of function, variable, typedef, record, enum, field and
\* enumerator.
OtherShape(n) == \A base \in VisitMethods : ~IsA(n.cls, base)

\* C13: every eligible named node that is not a function, variable, typedef,
\* record, enum, field or enumerator has a record all the same, with the
\* signature "<raw-structural-category>: <name>".
C13_OtherNodesRecorded ==
    TraversalDone =>
        LET nodes == TreeNodes(sources)
        IN  \A p \in 1..Len(nodes) :
                (Eligible(nodes[p]) /\ OtherShape(nodes[p]) /\ nodes[p].name # "")
                => \E k \in 1..Len(Decls) :
                       /\ Decls[k].declaration = nodes[p].cls \o ": " \o nodes[p].name
                       /\ Decls[k].line = nodes[p].line
                       /\ Decls[k].column = nodes[p].col

\* The records the source file named in the header gives.
HeaderSourceDecls ==
    IF HasTree(sources[1].outcome)
    THEN ExpectedDecls(Preorder(sources[1].decls))
    ELSE <<>>

\* C14: nothing of the report is written before every traversal is over, and
\* every record printed and counted comes from the one source file named in
\* the header, also when several source paths are given.
C14_OneTranslationUnit ==
    /\ out # <<>> => TraversalDone
    /\ Reported =>
           /\ out[1] = "=== Declarations from " \o sources[1].path \o " ===\n\n"
           /\ Decls = HeaderSourceDecls
           /\ out[Len(out)] = "\n=== Total: " \o ToString(Len(HeaderSourceDecls)) \o " items ===\n"

====
